---- MODULE Spec2Model ----
(***************************************************************************)
(* State-machine model of the search_events tool handler                   *)
(* (src/src/shared/tools/search-events.ts).                                *)
(*                                                                         *)
(* One run of the model is one invocation of searchEventsTool.handler.     *)
(* The handler is an async function: it runs without interruption between  *)
(* awaits, so every action below is one such uninterrupted stretch.        *)
(*                                                                         *)
(* Conventions for JavaScript values:                                      *)
(*   - text that is searched (summary, description, location, attendee     *)
(*     email/displayName, query) is a sequence of one-character strings;   *)
(*     NoText stands for `undefined`, << >> for the empty string;          *)
(*   - opaque strings (ids, display names, tokens, messages) are TLA+      *)
(*     strings; Undef stands for `undefined`, "" for the empty string;     *)
(*   - an optional property of an event is absent from the record's        *)
(*     DOMAIN, as in `field in event`;                                     *)
(*   - a dateTime string is <<day, hour, utcOffset>>, an all-day date      *)
(*     string is <<day>>; instants are counted in hours since the epoch.   *)
(* timeMin, timeMax and eventTypes are passed through to listEvents        *)
(* unchanged and read nowhere else; they are not part of the state.        *)
(***************************************************************************)
EXTENDS Integers, Sequences, FiniteSets, TLC

VARIABLES
    providerToken,   \* context.providerToken
    args,            \* the parsed input (InputSchema)
    pc,              \* where the handler is: start / listing / fetching / done
    listCalendarsCalls, \* number of client.listCalendars() calls issued
    calendarList,    \* what the listCalendars call did, Pending before
    calendarsToSearch, \* the resolved source descriptors
    calls,           \* calls[i]: the listEvents requests issued for source i
    upstream,        \* upstream[i]: what source i's listEvents call did
    settled,         \* settled[i]: what searchPromises[i] resolved to
    overtaken,       \* history: some call completed before an earlier calendar's
    locals,          \* the handler's locals after aggregation
    response         \* the ToolResult returned, NoResponse before

vars == <<providerToken, args, pc, listCalendarsCalls, calendarList,
          calendarsToSearch, calls, upstream, settled, overtaken, locals,
          response>>

-----------------------------------------------------------------------------
(* Bounds of the model                                                     *)

\* longest page of events one listEvents call returns
MaxEvents == 2
\* longest calendar list listCalendars returns
MaxCalendars == 2
\* largest args.maxResults drawn
MaxRequested == 2

-----------------------------------------------------------------------------
(* JavaScript values                                                       *)

Undef == "undefined"
NoText == <<"undefined">>
Pending == [kind |-> "pending"]
NoResponse == [kind |-> "none"]
NoLocals == [kind |-> "none"]

Min(a, b) == IF a < b THEN a ELSE b
Max(a, b) == IF a > b THEN a ELSE b

\* truthiness of an optional opaque string
Truthy(s) == s # Undef /\ s # ""
\* truthiness of an optional text
TruthyText(t) == t # NoText /\ t # << >>

UpperChars == <<"A", "B", "E", "N", "R">>
LowerChars == <<"a", "b", "e", "n", "r">>

\* String.prototype.toLowerCase on one character
LowerChar(c) ==
    IF \E i \in 1..Len(UpperChars) : UpperChars[i] = c
    THEN LowerChars[CHOOSE i \in 1..Len(UpperChars) : UpperChars[i] = c]
    ELSE c

\* String.prototype.toLowerCase
ToLowerCase(t) == [i \in 1..Len(t) |-> LowerChar(t[i])]

\* String.prototype.includes
Includes(t, q) ==
    \E off \in 0..(Len(t) - Len(q)) : SubSeq(t, off + 1, off + Len(q)) = q

\* new Date(dateStr).getTime(): a dateTime carries its UTC offset, a
\* date-only string is midnight UTC of that day
DateGetTime(dateStr) ==
    IF Len(dateStr) = 3
    THEN dateStr[1] * 24 + dateStr[2] - dateStr[3]
    ELSE dateStr[1] * 24

\* optional property access
Get(obj, f, dflt) == IF f \in DOMAIN obj THEN obj[f] ELSE dflt

-----------------------------------------------------------------------------
(* The remote calendars (the GoogleCalendarClient's side)                  *)

\* "Barber" in mixed case: the text query the requests carry
BarberQuery == <<"B", "a", "r", "b", "e", "r">>

\* title matches only after case folding; start 10:00+02:00 on day 1
EvShop ==
    [id |-> "p1",
     summary |-> <<"B", "A", "R", "B", "E", "R", "s", "h", "o", "p">>,
     start |-> [dateTime |-> <<1, 10, 2>>],
     location |-> <<"M", "a", "i", "n">>]
\* matches by an attendee's display name only; start 09:00Z on day 1
EvLunch ==
    [id |-> "p2",
     summary |-> <<"L", "u", "n", "c", "h">>,
     start |-> [dateTime |-> <<1, 9, 0>>],
     attendees |-> <<[email |-> <<"a", "@", "x">>,
                      displayName |-> <<"A", "n", "n", " ", "b", "a", "r", "B", "E", "R">>,
                      self |-> TRUE, responseStatus |-> "accepted"]>>]
\* matches by location only; an all-day date before the epoch
EvParty ==
    [id |-> "p3",
     summary |-> <<"P", "a", "r", "t", "y">>,
     start |-> [date |-> <<-1>>],
     location |-> <<"b", "a", "r", "b", "e", "r", " ", "s", "t">>,
     status |-> "cancelled"]
\* no title, matches by description only; same instant as EvShop
EvVisit ==
    [id |-> "w1",
     description |-> <<"g", "o", " ", "B", "a", "r", "b", "e", "r", "s">>,
     start |-> [dateTime |-> <<1, 8, 0>>]]
\* the letters of the query, not contiguous: no match; no start at all
EvNear ==
    [id |-> "w2",
     summary |-> <<"b", "a", "r", "b", "e", " ", "r">>,
     location |-> << >>]
\* matches by an attendee's email only; empty dateTime, date of day 0
EvSync ==
    [id |-> "t1",
     summary |-> <<"S", "y", "n", "c">>,
     start |-> [dateTime |-> << >>, date |-> <<0>>],
     attendees |-> <<[email |-> <<"b", "o", "b", "@", "x">>],
                     [email |-> <<"j", "@", "b", "a", "r", "b", "e", "r">>]>>]

\* the events each remote calendar holds, in the order it lists them
Holdings(calendarId) ==
    CASE calendarId \in {"primary", "me"} -> <<EvShop, EvLunch, EvParty>>
      [] calendarId = "work" -> <<EvVisit, EvNear>>
      [] calendarId = "team" -> <<EvSync>>
      [] OTHER -> << >>

\* a page of a calendar's listing: a window of at most MaxEvents events
Pages(calendarId) ==
    LET h == Holdings(calendarId) IN
    {p \in {SubSeq(h, a, b) : a \in 1..(Len(h) + 1), b \in 0..Len(h)} :
        Len(p) <= MaxEvents}

\* the nextPageToken a listing may carry
NextPageTokens == {Undef, "next"}

\* the messages of the errors a listEvents call may raise
ErrorMessages == {"", "Not Found"}

\* the caller's calendar list, in the remote's enumeration order
Directory ==
    <<[id |-> "work", summary |-> "Work", accessRole |-> "writer"],
      [id |-> "me", summary |-> "Personal", accessRole |-> "owner"],
      [id |-> "holidays", summary |-> "Holidays", accessRole |-> "freeBusyReader"],
      [id |-> "team", summary |-> "Team", accessRole |-> "reader"]>>

\* s with the positions outside keep removed
RECURSIVE Select(_, _)
Select(s, keep) ==
    IF s = << >> THEN << >>
    ELSE LET rest == Select(Tail(s), {k - 1 : k \in keep \ {1}}) IN
         IF 1 \in keep THEN <<Head(s)>> \o rest ELSE rest

\* what listCalendars may return: at most MaxCalendars entries of the
\* directory, in enumeration order
CalendarListings ==
    {Select(Directory, keep) :
        keep \in {k \in SUBSET (1..Len(Directory)) : Cardinality(k) <= MaxCalendars}}

-----------------------------------------------------------------------------
(* The request                                                             *)

\* args.calendarId is a string ('all' or one id, kept as <<id>>) or an array
AllCalendars == [kind |-> "string", value |-> <<"all">>]

\* args.calendarId: 'all', one id, or an array of ids
CalendarSelectors ==
    {AllCalendars,
     [kind |-> "string", value |-> <<"primary">>],
     [kind |-> "array", value |-> << >>],
     [kind |-> "array", value |-> <<"primary", "work">>],
     [kind |-> "array", value |-> <<"team", "primary", "work">>]}

\* InputSchema, after parsing (defaults applied): the requests with query
\* and pageToken each absent or set, and those with both the empty string
InputSchema ==
    [calendarId : CalendarSelectors,
     query : {NoText, BarberQuery},
     maxResults : 1..MaxRequested,
     orderBy : {Undef, "startTime", "updated"},
     pageToken : {Undef, "tok"},
     fields : {NoText},
     singleEvents : BOOLEAN]
    \cup
    [calendarId : CalendarSelectors,
     query : {<< >>},
     maxResults : 1..MaxRequested,
     orderBy : {Undef, "startTime", "updated"},
     pageToken : {""},
     fields : {NoText},
     singleEvents : BOOLEAN]

-----------------------------------------------------------------------------
(* Pure functions of the tool                                              *)

DEFAULT_FIELDS ==
    <<"id", "summary", "start", "end", "location", "htmlLink", "status",
      "attendees", "calendarId", "calendarName">>

\* fetch planning: over-fetch factor and floor, and the API's page maximum
QueryFetchMultiplier == 10
PlainFetchMultiplier == 2
QueryMinFetchAmount == 100
PlainMinFetchAmount == 10
ApiMaxResults == 250

hasLocalQuery == TruthyText(args.query)

\* faulty variant: the over-fetch factor ignores the query
fetchMultiplierPlain == PlainFetchMultiplier

fetchMultiplier == IF hasLocalQuery THEN QueryFetchMultiplier ELSE PlainFetchMultiplier
minFetchAmount == IF hasLocalQuery THEN QueryMinFetchAmount ELSE PlainMinFetchAmount

\* the maxResults sent with every listEvents request
FetchCap ==
    Min(Max(args.maxResults * fetchMultiplier, minFetchAmount), ApiMaxResults)

\* the descriptor synthesized for an id the caller names
SynthesizedCalendar(id) ==
    [id |-> id,
     summary |-> IF id = "primary" THEN "Primary" ELSE id,
     accessRole |-> "reader"]

\* faulty variant: free/busy-only calendars are kept too
ReadableRolesAndFreeBusy == {"owner", "writer", "reader", "freeBusyReader"}

ReadableRoles == {"owner", "writer", "reader"}

\* calendarList.items.filter(...) of the 'all' case
ReadableCalendars(items) ==
    SelectSeq(items, LAMBDA cal : cal.accessRole \in ReadableRoles)

\* the parameters of the listEvents call for one calendar
ListEventsRequest(calendar) ==
    [calendarId |-> calendar.id,
     maxResults |-> FetchCap,
     singleEvents |-> args.singleEvents,
     orderBy |-> IF args.singleEvents
                 THEN (IF Truthy(args.orderBy) THEN args.orderBy ELSE "startTime")
                 ELSE args.orderBy,
     pageToken |-> args.pageToken]

\* faulty variant: every event is tagged with the last calendar searched
WithLastCalendar(event, calendar) ==
    LET last == calendarsToSearch[Len(calendarsToSearch)] IN
    [f \in DOMAIN event \cup {"calendarId", "calendarName"} |->
        IF f = "calendarId" THEN last.id
        ELSE IF f = "calendarName" THEN last.summary
        ELSE event[f]]

\* { ...event, calendarId, calendarName }
WithCalendar(event, calendar) ==
    [f \in DOMAIN event \cup {"calendarId", "calendarName"} |->
        IF f = "calendarId" THEN calendar.id
        ELSE IF f = "calendarName" THEN calendar.summary
        ELSE event[f]]

\* what a searchPromises entry resolves to when listEvents returns
Fulfilled(calendar, result) ==
    [calendar |-> calendar,
     events |-> [k \in 1..Len(result.items) |-> WithCalendar(result.items[k], calendar)],
     nextPageToken |-> result.nextPageToken]

\* what a searchPromises entry resolves to when listEvents raises
Caught(calendar, message) ==
    [calendar |-> calendar, events |-> << >>, error |-> message]

getEventStartTime(event) ==
    LET start == Get(event, "start", << >>)
        dateTime == Get(start, "dateTime", << >>)
        dateStr == IF dateTime # << >> THEN dateTime ELSE Get(start, "date", << >>)
    IN IF dateStr = << >> THEN 0 ELSE DateGetTime(dateStr)

searchableFields(event) ==
    LET attendees == Get(event, "attendees", << >>) IN
    <<Get(event, "summary", NoText), Get(event, "description", NoText),
      Get(event, "location", NoText)>>
    \o [k \in 1..Len(attendees) |-> Get(attendees[k], "email", NoText)]
    \o [k \in 1..Len(attendees) |-> Get(attendees[k], "displayName", NoText)]

\* faulty variant: the query is not lower-cased
matchesQueryAsTyped(event, query) ==
    LET fields == searchableFields(event)
    IN \E k \in 1..Len(fields) :
          TruthyText(fields[k]) /\ Includes(ToLowerCase(fields[k]), query)

matchesQuerySubstring(event, query) ==
    LET lowerQuery == ToLowerCase(query)
        fields == searchableFields(event)
    IN \E k \in 1..Len(fields) :
          TruthyText(fields[k]) /\ Includes(ToLowerCase(fields[k]), lowerQuery)

\* faulty variant: the merge stops at the first source that failed
RECURSIVE FlatMapUntilError(_)
FlatMapUntilError(results) ==
    IF results = << >> \/ "error" \in DOMAIN Head(results) THEN << >>
    ELSE Head(results).events \o FlatMapUntilError(Tail(results))

\* results.flatMap((r) => r.events)
RECURSIVE FlatMapEvents(_)
FlatMapEvents(results) ==
    IF results = << >> THEN << >>
    ELSE Head(results).events \o FlatMapEvents(Tail(results))

\* faulty variant: the comparator's operands are swapped
CompareStartDescending(a, b) == getEventStartTime(b) - getEventStartTime(a)

\* the comparator of the start-time sort
CompareStart(a, b) == getEventStartTime(a) - getEventStartTime(b)

\* Array.prototype.sort is stable: e goes behind every element that does
\* not compare greater than it
RECURSIVE InsertByStart(_, _)
InsertByStart(sorted, e) ==
    IF sorted = << >> THEN <<e>>
    ELSE IF CompareStart(Head(sorted), e) <= 0
         THEN <<Head(sorted)>> \o InsertByStart(Tail(sorted), e)
         ELSE <<e>> \o sorted

RECURSIVE SortByStart(_)
SortByStart(events) ==
    IF events = << >> THEN << >>
    ELSE InsertByStart(SortByStart(SubSeq(events, 1, Len(events) - 1)),
                       events[Len(events)])

\* faulty variant: the sort ignores singleEvents and orderBy
SortsAlways == TRUE

\* the condition under which the handler sorts by start time
SortsByStart ==
    args.singleEvents # FALSE /\ (args.orderBy = "startTime" \/ ~Truthy(args.orderBy))

pickFields(event, fields) ==
    [f \in {fields[k] : k \in 1..Len(fields)} \cap DOMAIN event |-> event[f]]

-----------------------------------------------------------------------------
(* Rendering: the text is kept as its sequence of lines, each line as the  *)
(* values it is formatted from                                             *)

responseMap(status) ==
    CASE status = "accepted" -> "you: accepted"
      [] status = "declined" -> "you: declined"
      [] status = "tentative" -> "you: maybe"
      [] status = "needsAction" -> "you: not responded"
      [] OTHER -> status

formatEventLine(event) ==
    LET start == Get(event, "start", << >>)
        dateTime == Get(start, "dateTime", << >>)
        date == Get(start, "date", << >>)
        attendees == Get(event, "attendees", << >>)
        selves == {k \in 1..Len(attendees) : Get(attendees[k], "self", FALSE)}
        selfStatus ==
            IF selves = {} THEN Undef
            ELSE Get(attendees[CHOOSE k \in selves : \A j \in selves : k <= j],
                     "responseStatus", Undef)
    IN [kind |-> "event",
        title |-> IF TruthyText(Get(event, "summary", NoText))
                  THEN event.summary ELSE <<"(no title)">>,
        start |-> IF dateTime # << >> THEN dateTime
                  ELSE IF date # << >> THEN date ELSE <<"no date">>,
        calendar |-> IF Truthy(event.calendarName) THEN event.calendarName ELSE "",
        statusInfo |-> IF Truthy(selfStatus) THEN responseMap(selfStatus)
                       ELSE IF Get(event, "status", Undef) = "cancelled"
                            THEN "cancelled" ELSE "",
        htmlLink |-> Get(event, "htmlLink", Undef)]

\* the lines one event contributes
EventLines(event) ==
    LET attendees == Get(event, "attendees", << >>) IN
    <<formatEventLine(event)>>
    \o (IF TruthyText(Get(event, "location", NoText))
        THEN <<[kind |-> "location", location |-> event.location]>> ELSE << >>)
    \o (IF Len(attendees) > 0
        THEN <<[kind |-> "attendees",
                emails |-> [k \in 1..Min(Len(attendees), 5) |->
                               Get(attendees[k], "email", NoText)],
                more |-> Max(Len(attendees) - 5, 0)]>>
        ELSE << >>)
    \o (IF Truthy(Get(event, "hangoutLink", Undef))
        THEN <<[kind |-> "meet", hangoutLink |-> event.hangoutLink]>> ELSE << >>)

RECURSIVE AllEventLines(_)
AllEventLines(events) ==
    IF events = << >> THEN << >>
    ELSE EventLines(Head(events)) \o AllEventLines(Tail(events))

\* results.filter((r) => !r.error).map((r) => r.calendar.summary)
searchedCalendars(results) ==
    LET ok == SelectSeq(results, LAMBDA r : ~Truthy(Get(r, "error", Undef)))
    IN [k \in 1..Len(ok) |-> ok[k].calendar.summary]

\* results.filter((r) => r.error).map((r) => r.calendar.summary)
failedCalendars(results) ==
    LET bad == SelectSeq(results, LAMBDA r : Truthy(Get(r, "error", Undef)))
    IN [k \in 1..Len(bad) |-> bad[k].calendar.summary]

\* the header naming the calendars searched and those that failed
HeaderLines(results) ==
    IF args.calendarId = AllCalendars /\ Len(searchedCalendars(results)) > 1
    THEN <<[kind |-> "searched", names |-> searchedCalendars(results)]>>
         \o (IF Len(failedCalendars(results)) > 0
             THEN <<[kind |-> "failed", names |-> failedCalendars(results)]>>
             ELSE << >>)
         \o <<[kind |-> "blank"]>>
    ELSE << >>

\* faulty variant: results[0] whatever the number of calendars
firstCalendarResult(results) ==
    IF Len(results) > 0 THEN results[1] ELSE [kind |-> "null"]

\* calendarsToSearch.length === 1 ? results[0] : null
\* (results[0] of an empty array is undefined, which ?. treats like null)
singleCalendarResult(results) ==
    IF Len(calendarsToSearch) = 1 /\ Len(results) > 0
    THEN results[1] ELSE [kind |-> "null"]

\* the closing hint: the pageToken line, the "increase maxResults" line, or none
MoreLines(results, allEvents, hasMore) ==
    LET hasResultsToShow == Len(allEvents) > 0
        token == Get(singleCalendarResult(results), "nextPageToken", Undef)
    IN IF hasResultsToShow /\ Truthy(token) /\ ~TruthyText(args.query)
       THEN <<[kind |-> "pageToken", nextPageToken |-> token]>>
       ELSE IF hasResultsToShow /\ hasMore
            THEN <<[kind |-> "more"]>> ELSE << >>

\* structuredContent.nextPageToken
StructuredNextPageToken(results) ==
    Get(singleCalendarResult(results), "nextPageToken", Undef)

\* faulty variant: the slice keeps one entry too many
CapToMaxPlusOne(events, maxResults) ==
    SubSeq(events, 1, Min(Len(events), maxResults + 1))

\* allEvents.slice(0, maxResults)
CapToMax(events, maxResults) == SubSeq(events, 1, Min(Len(events), maxResults))

\* faulty variant: a sequence of exactly maxResults entries reports more
HasMoreOrEqual(events, maxResults) == Len(events) >= maxResults

\* allEvents.length > maxResults
HasMore(events, maxResults) == Len(events) > maxResults

\* the handler from the merge (line 291) to the returned result
Aggregation(results) ==
    LET merged == FlatMapEvents(results)
        filtered == IF TruthyText(args.query)
                    THEN SelectSeq(merged, LAMBDA e : matchesQuerySubstring(e, args.query))
                    ELSE merged
        ordered == IF SortsByStart THEN SortByStart(filtered) ELSE filtered
        maxResults == args.maxResults
        hasMore == HasMore(ordered, maxResults)
        allEvents == CapToMax(ordered, maxResults)
        fields == IF args.fields # NoText /\ Len(args.fields) > 0
                  THEN args.fields ELSE DEFAULT_FIELDS
        lines ==
            HeaderLines(results)
            \o (IF Len(allEvents) = 0 THEN <<[kind |-> "none"]>>
                ELSE <<[kind |-> "found", count |-> Len(allEvents), more |-> hasMore]>>
                     \o AllEventLines(allEvents))
            \o MoreLines(results, allEvents, hasMore)
            \o <<[kind |-> "note"]>>
    IN [locals |-> [kind |-> "aggregated", results |-> results, merged |-> merged,
                    filtered |-> filtered, ordered |-> ordered,
                    hasMore |-> hasMore, allEvents |-> allEvents,
                    searchedCalendars |-> searchedCalendars(results),
                    failedCalendars |-> failedCalendars(results)],
        response |-> [kind |-> "result", isError |-> FALSE, text |-> lines,
                      structuredContent |->
                          [items |-> [k \in 1..Len(allEvents) |->
                                         pickFields(allEvents[k], fields)],
                           calendarsSearched |-> searchedCalendars(results),
                           nextPageToken |-> StructuredNextPageToken(results)]]]

\* faulty variant: the error result carries an empty structured payload
ErrorResultWithPayload(line) ==
    [kind |-> "result", isError |-> TRUE, text |-> <<line>>,
     structuredContent |-> [items |-> << >>, calendarsSearched |-> << >>,
                            nextPageToken |-> Undef]]

\* an error result: the flag and one text line, no structuredContent
ErrorResult(line) == [kind |-> "result", isError |-> TRUE, text |-> <<line>>]

-----------------------------------------------------------------------------
(* The handler                                                             *)

Init ==
    /\ providerToken \in {Undef, "ya29"}
    /\ args \in InputSchema
    /\ pc = "start"
    /\ listCalendarsCalls = 0
    /\ calendarList = Pending
    /\ calendarsToSearch = << >>
    /\ calls = << >>
    /\ upstream = << >>
    /\ settled = << >>
    /\ overtaken = FALSE
    /\ locals = NoLocals
    /\ response = NoResponse

\* faulty variant: the values are collected in the order the promises resolve
CollectInCompletionOrder(values, i, value) ==
    [values EXCEPT ![CHOOSE k \in 1..Len(values) :
                        /\ values[k] = Pending
                        /\ \A j \in 1..(k - 1) : values[j] # Pending] = value]

\* Promise.all keeps each promise's value at the promise's own index
PromiseAllCollect(values, i, value) == [values EXCEPT ![i] = value]

\* faulty variant: the values resolved so far are taken without waiting for the rest
PromiseAllSoFar(values) ==
    [resolved |-> TRUE, results |-> SelectSeq(values, LAMBDA v : v # Pending)]

\* Promise.all resolves, with all the values, once every promise has resolved
PromiseAll(values) ==
    IF \A i \in 1..Len(values) : values[i] # Pending
    THEN [resolved |-> TRUE, results |-> values]
    ELSE [resolved |-> FALSE, results |-> << >>]

\* faulty variant: the check lets an empty calendar set through
RejectsPageTokenIfSeveral(calendars) == Truthy(args.pageToken) /\ Len(calendars) > 1

\* faulty variant: the check only rejects an empty calendar set
RejectsPageTokenIfNone(calendars) == Truthy(args.pageToken) /\ Len(calendars) = 0

\* the pageToken check of line 221
RejectsPageToken(calendars) == Truthy(args.pageToken) /\ Len(calendars) # 1

\* lines 220-288: with the calendars resolved, reject a pageToken unless
\* exactly one calendar is searched, else issue one listEvents call per calendar
Dispatch(calendars) ==
    /\ calendarsToSearch' = calendars
    /\ IF RejectsPageToken(calendars)
       THEN /\ response' = ErrorResult([kind |-> "paginationSingleCalendar"])
            /\ pc' = "done"
            /\ UNCHANGED <<calls, upstream, settled>>
       ELSE /\ calls' = [i \in 1..Len(calendars) |-> <<ListEventsRequest(calendars[i])>>]
            /\ upstream' = [i \in 1..Len(calendars) |-> Pending]
            /\ settled' = [i \in 1..Len(calendars) |-> Pending]
            /\ pc' = "fetching"
            /\ UNCHANGED response

\* lines 175-187: no provider token
AuthenticationRequired ==
    /\ pc = "start"
    /\ ~Truthy(providerToken)
    /\ response' = ErrorResult([kind |-> "authenticationRequired"])
    /\ pc' = "done"
    /\ UNCHANGED <<providerToken, args, listCalendarsCalls, calendarList,
                   calendarsToSearch, calls, upstream, settled, overtaken, locals>>

\* lines 195-197: calendarId 'all', up to the await of listCalendars
BeginAll ==
    /\ pc = "start"
    /\ Truthy(providerToken)
    /\ args.calendarId = AllCalendars
    /\ listCalendarsCalls' = listCalendarsCalls + 1
    /\ pc' = "listing"
    /\ UNCHANGED <<providerToken, args, calendarList, calendarsToSearch, calls,
                   upstream, settled, overtaken, locals, response>>

\* lines 202-288: an id or an array of ids, up to the await of Promise.all
BeginExplicit ==
    /\ pc = "start"
    /\ Truthy(providerToken)
    /\ args.calendarId # AllCalendars
    /\ Dispatch([k \in 1..Len(args.calendarId.value) |->
                    SynthesizedCalendar(args.calendarId.value[k])])
    /\ UNCHANGED <<providerToken, args, listCalendarsCalls, calendarList,
                   overtaken, locals>>

\* lines 197-288: listCalendars returns
ListCalendarsReturns ==
    /\ pc = "listing"
    /\ \E items \in CalendarListings :
          /\ calendarList' = [kind |-> "returned", items |-> items]
          /\ Dispatch(ReadableCalendars(items))
    /\ UNCHANGED <<providerToken, args, listCalendarsCalls, overtaken, locals>>

\* lines 197, 395-404: listCalendars raises, the outer catch answers
ListCalendarsRaises ==
    /\ pc = "listing"
    /\ \E message \in ErrorMessages :
          /\ calendarList' = [kind |-> "raised", message |-> message]
          /\ response' = ErrorResult([kind |-> "failedToSearch", message |-> message])
    /\ pc' = "done"
    /\ UNCHANGED <<providerToken, args, listCalendarsCalls, calendarsToSearch,
                   calls, upstream, settled, overtaken, locals>>

\* lines 248-274: the listEvents call of calendar i returns a page
ListEventsReturns(i) ==
    /\ pc = "fetching"
    /\ upstream[i] = Pending
    /\ \E items \in Pages(calendarsToSearch[i].id), token \in NextPageTokens :
          LET result == [kind |-> "returned", items |-> items, nextPageToken |-> token]
          IN /\ upstream' = [upstream EXCEPT ![i] = result]
             /\ settled' = PromiseAllCollect(settled, i,
                                             Fulfilled(calendarsToSearch[i], result))
    /\ overtaken' = (overtaken \/ \E j \in 1..(i - 1) : upstream[j] = Pending)
    /\ UNCHANGED <<providerToken, args, pc, listCalendarsCalls, calendarList,
                   calendarsToSearch, calls, locals, response>>

\* faulty variant: the catch block issues the call of calendar i again
RetryAfterRaise(i) ==
    [calls EXCEPT ![i] = Append(@, ListEventsRequest(calendarsToSearch[i]))]

\* the calls issued once calendar i's call has raised: the catch block
\* (lines 275-285) issues none
CallsAfterRaise(i) == calls

\* lines 275-285: the listEvents call of calendar i raises and is caught
ListEventsRaises(i) ==
    /\ pc = "fetching"
    /\ upstream[i] = Pending
    /\ \E message \in ErrorMessages :
          /\ upstream' = [upstream EXCEPT ![i] = [kind |-> "raised", message |-> message]]
          /\ settled' = PromiseAllCollect(settled, i,
                                          Caught(calendarsToSearch[i], message))
    /\ overtaken' = (overtaken \/ \E j \in 1..(i - 1) : upstream[j] = Pending)
    /\ calls' = CallsAfterRaise(i)
    /\ UNCHANGED <<providerToken, args, pc, listCalendarsCalls, calendarList,
                   calendarsToSearch, locals, response>>

\* lines 288-394: Promise.all resolves; merge, filter, sort, cap, render
Aggregate ==
    /\ pc = "fetching"
    /\ PromiseAll(settled).resolved
    /\ LET done == Aggregation(PromiseAll(settled).results)
       IN /\ locals' = done.locals
          /\ response' = done.response
    /\ pc' = "done"
    /\ UNCHANGED <<providerToken, args, listCalendarsCalls, calendarList,
                   calendarsToSearch, calls, upstream, settled, overtaken>>

Next ==
    \/ AuthenticationRequired
    \/ BeginAll
    \/ BeginExplicit
    \/ ListCalendarsReturns
    \/ ListCalendarsRaises
    \/ \E i \in 1..Len(calendarsToSearch) : ListEventsReturns(i)
    \/ \E i \in 1..Len(calendarsToSearch) : ListEventsRaises(i)
    \/ Aggregate

Spec == Init /\ [][Next]_vars

-----------------------------------------------------------------------------
(* Fetch planning over the whole range of maxResults: the requests with    *)
(* every maxResults the schema admits, followed up to the point where the  *)
(* listEvents requests have been issued                                    *)

\* InputSchema.maxResults: .min(1).max(250)
MaxResultsLimit == 250

PlanRequests ==
    [calendarId : {AllCalendars,
                   [kind |-> "string", value |-> <<"primary">>],
                   [kind |-> "array", value |-> <<"team", "primary", "work">>]},
     query : {NoText, << >>, BarberQuery},
     maxResults : 1..MaxResultsLimit,
     orderBy : {Undef},
     pageToken : {Undef},
     fields : {NoText},
     singleEvents : {TRUE}]

InitPlan ==
    /\ providerToken = "ya29"
    /\ args \in PlanRequests
    /\ pc = "start"
    /\ listCalendarsCalls = 0
    /\ calendarList = Pending
    /\ calendarsToSearch = << >>
    /\ calls = << >>
    /\ upstream = << >>
    /\ settled = << >>
    /\ overtaken = FALSE
    /\ locals = NoLocals
    /\ response = NoResponse

NextPlan ==
    \/ BeginAll
    \/ BeginExplicit
    \/ ListCalendarsReturns

SpecPlan == InitPlan /\ [][NextPlan]_vars

-----------------------------------------------------------------------------
(* Vocabulary of the properties                                            *)

Done == pc = "done"
Succeeded == pc = "done" /\ ~response.isError
Sources == 1..Len(upstream)
Raised(i) == upstream[i].kind = "raised"
Returned(i) == upstream[i].kind = "returned"

\* the lines of the rendered text of a given kind
TextLines(kind) == {k \in 1..Len(response.text) : response.text[k].kind = kind}

\* the events source i's listing call handed back (none unless it returned)
Contribution(i) == IF Returned(i) THEN upstream[i].items ELSE << >>

\* the number of events the sources before i handed back
RECURSIVE Offset(_)
Offset(i) == IF i <= 1 THEN 0 ELSE Offset(i - 1) + Len(Contribution(i - 1))

\* the response's error text is the pagination validation error
IsValidationError ==
    /\ pc = "done"
    /\ response.isError
    /\ response.text[1].kind = "paginationSingleCalendar"

-----------------------------------------------------------------------------
(* C1: every non-error result returns at most maxResults events, in the    *)
(* structured items and in the rendered entries alike.                     *)
C1_AtMostMaxResults ==
    Succeeded =>
        /\ Len(response.structuredContent.items) <= args.maxResults
        /\ Cardinality(TextLines("event")) <= args.maxResults

\* more events matched than maxResults allows, one source having failed
C1_Witness ==
    /\ Succeeded
    /\ locals.hasMore
    /\ Len(locals.filtered) > args.maxResults
    /\ Len(response.structuredContent.items) = args.maxResults
    /\ \E i \in Sources : Raised(i)

(* C2: whatever subset of the listing calls raises, the handler returns a  *)
(* non-error result and the merged sequence (before filter, sort and cap)  *)
(* is exactly the events of the sources that returned, each source's block *)
(* in resolution order; a source that raised contributes no event and a    *)
(* recorded error.                                                         *)
C2_FailureIsolation ==
    (Done /\ Len(upstream) > 0) =>
        /\ ~response.isError
        /\ Len(locals.merged) = Offset(Len(upstream) + 1)
        /\ \A i \in Sources :
              /\ \A j \in 1..Len(Contribution(i)) :
                    LET e == locals.merged[Offset(i) + j] IN
                    /\ e.calendarId = calendarsToSearch[i].id
                    /\ \A f \in DOMAIN Contribution(i)[j] : e[f] = Contribution(i)[j][f]
              /\ Raised(i) =>
                    /\ settled[i].events = << >>
                    /\ settled[i].error = upstream[i].message

\* three sources, exactly one of which raised, the other two returning events
C2_Witness ==
    /\ Done
    /\ Len(upstream) = 3
    /\ Cardinality({i \in Sources : Raised(i)}) = 1
    /\ \A i \in Sources : Returned(i) => Len(upstream[i].items) > 0
    /\ Raised(2)

(* C3: when some listing call raised and the result is not an error, the   *)
(* response names exactly the sources that raised, by display name, as     *)
(* failed, whatever the selector (stated here for errors that carry a      *)
(* message).                                                               *)
C3_FailedSourcesNamed ==
    (/\ Succeeded
     /\ \E i \in Sources : Raised(i)
     /\ \A i \in Sources : Raised(i) => upstream[i].message # "") =>
        \E k \in TextLines("failed") :
            LET names == response.text[k].names
                raised == SelectSeq([i \in Sources |-> i], LAMBDA i : Raised(i))
            IN /\ Len(names) = Len(raised)
               /\ \A n \in 1..Len(names) :
                     names[n] = calendarsToSearch[raised[n]].summary

(* C4: a request with a pageToken whose selector resolves to a set of size *)
(* other than 1 (selector 'all' included) fails with the validation error  *)
(* before any network call: neither listCalendars nor listEvents has been  *)
(* called.                                                                 *)
C4_NoCallBeforeValidation ==
    (/\ Done
     /\ Truthy(providerToken)
     /\ Truthy(args.pageToken)
     /\ calendarList.kind # "raised"
     /\ Len(calendarsToSearch) # 1) =>
        /\ IsValidationError
        /\ listCalendarsCalls = 0
        /\ calls = << >>

(* C4, amended: an authenticated request with a non-empty pageToken whose  *)
(* selector resolves to a set of size other than 1 returns the validation  *)
(* error with no listEvents call ever issued; an id or id list is rejected *)
(* with no network call at all, selector 'all' after exactly one           *)
(* listCalendars call, the one that resolves the set.                      *)
C4_NoListingBeforeValidation ==
    (Truthy(providerToken) /\ Truthy(args.pageToken)) =>
        /\ (args.calendarId # AllCalendars /\ Len(args.calendarId.value) # 1) =>
              /\ calls = << >>
              /\ listCalendarsCalls = 0
              /\ Done => IsValidationError
        /\ (/\ args.calendarId = AllCalendars
            /\ calendarList.kind = "returned"
            /\ Len(ReadableCalendars(calendarList.items)) # 1) =>
              /\ calls = << >>
              /\ listCalendarsCalls = 1
              /\ IsValidationError

\* selector 'all' resolved to two calendars and the pageToken was rejected
C4_Witness ==
    /\ IsValidationError
    /\ args.calendarId = AllCalendars
    /\ calendarList.kind = "returned"
    /\ Len(calendarsToSearch) = 2
    /\ listCalendarsCalls = 1

(* C5: a single-source request with a non-empty query, a non-empty         *)
(* filtered result and an upstream nextPageToken omits the token           *)
(* everywhere: no pageToken line in the text, no nextPageToken in the      *)
(* structured payload.                                                     *)
C5_TokenSuppressedUnderQuery ==
    (/\ Succeeded
     /\ Len(calendarsToSearch) = 1
     /\ TruthyText(args.query)
     /\ Len(locals.allEvents) > 0
     /\ Returned(1)
     /\ Truthy(upstream[1].nextPageToken)) =>
        /\ TextLines("pageToken") = {}
        /\ response.structuredContent.nextPageToken = Undef

(* C6: when more than one source is resolved, no continuation token is    *)
(* surfaced, in the text or in the structured nextPageToken, whatever      *)
(* tokens the sources returned.                                            *)
C6_NoTokenAcrossSources ==
    (Succeeded /\ Len(calendarsToSearch) > 1) =>
        /\ TextLines("pageToken") = {}
        /\ response.structuredContent.nextPageToken = Undef

\* several sources, each returning a token, with events to show and no query
C6_Witness ==
    /\ Succeeded
    /\ Len(calendarsToSearch) > 1
    /\ \A i \in Sources : Returned(i) /\ upstream[i].nextPageToken = "next"
    /\ Len(locals.allEvents) > 0
    /\ ~TruthyText(args.query)

\* two characters are the same letter, case aside
SameLetter(a, b) ==
    \/ a = b
    \/ \E k \in 1..Len(UpperChars) : {a, b} = {UpperChars[k], LowerChars[k]}

\* text t holds query q as a contiguous run of letters, case aside
HoldsQuery(t, q) ==
    \E off \in 0..(Len(t) - Len(q)) :
        \A k \in 1..Len(q) : SameLetter(t[off + k], q[k])

\* the title, description, location, or an attendee email or display name
\* of the event holds the query
EventHoldsQuery(e, q) ==
    \/ \E f \in {"summary", "description", "location"} \cap DOMAIN e :
          HoldsQuery(e[f], q)
    \/ /\ "attendees" \in DOMAIN e
       /\ \E k \in 1..Len(e.attendees) :
             \E f \in {"email", "displayName"} \cap DOMAIN e.attendees[k] :
                 HoldsQuery(e.attendees[k][f], q)

(* C7: under a non-empty query the filtered sequence is exactly the        *)
(* subsequence of the merged events that hold the query, case aside, in    *)
(* their title, description, location or an attendee email or display      *)
(* name; every returned event holds it.                                    *)
C7_FilterIsSubstringMatch ==
    (Succeeded /\ TruthyText(args.query)) =>
        /\ locals.filtered =
              SelectSeq(locals.merged, LAMBDA e : EventHoldsQuery(e, args.query))
        /\ \A k \in 1..Len(locals.allEvents) :
              EventHoldsQuery(locals.allEvents[k], args.query)
        /\ Len(locals.allEvents) = Min(Len(locals.filtered), args.maxResults)

\* the "BARBERshop" title is kept, the scattered letters of "barbe r" dropped
C7_Witness ==
    /\ Succeeded
    /\ TruthyText(args.query)
    /\ \E k \in 1..Len(locals.merged) : locals.merged[k].id = "w2"
    /\ \A k \in 1..Len(locals.filtered) : locals.filtered[k].id # "w2"
    /\ \E k \in 1..Len(locals.allEvents) : locals.allEvents[k].id = "p1"

\* the start instant of each event of the calendars, in hours since the
\* epoch, 0 when the event has no start
StartInstantOf(id) ==
    CASE id = "p1" -> 32
      [] id = "p2" -> 33
      [] id = "p3" -> -24
      [] id = "w1" -> 32
      [] id = "w2" -> 0
      [] id = "t1" -> 0

(* C8: with recurrence expansion on and orderBy startTime or unset, each   *)
(* returned event starts no later than the next one, an event without a    *)
(* start counting as instant 0.                                            *)
C8_StartTimeOrder ==
    (Succeeded /\ args.singleEvents /\ args.orderBy \in {Undef, "startTime"}) =>
        LET items == response.structuredContent.items IN
        /\ \A k \in 1..(Len(items) - 1) :
              StartInstantOf(items[k].id) <= StartInstantOf(items[k + 1].id)
        /\ \A k \in 1..(Len(locals.allEvents) - 1) :
              StartInstantOf(locals.allEvents[k].id)
                  <= StartInstantOf(locals.allEvents[k + 1].id)

\* events of two sources came in out of order, one of them without a start,
\* and were returned with the start-less one ahead of a later one
C8_Witness ==
    /\ Succeeded
    /\ args.singleEvents
    /\ args.orderBy = Undef
    /\ Len(calendarsToSearch) > 1
    /\ \E k \in 1..(Len(locals.filtered) - 1) :
          StartInstantOf(locals.filtered[k].id) > StartInstantOf(locals.filtered[k + 1].id)
    /\ Len(locals.allEvents) > 1
    /\ locals.allEvents[1].id = "w2"

\* the events the sources handed back, as <<source, position>>
Handed == UNION {{<<i, j>> : j \in 1..Len(Contribution(i))} : i \in Sources}
EventAt(p) == Contribution(p[1])[p[2]]

\* the handed-back events the request keeps
Kept ==
    {p \in Handed : TruthyText(args.query) => EventHoldsQuery(EventAt(p), args.query)}

\* p is returned ahead of q: earlier start when the start-time order
\* applies, else (and among equal starts) earlier source, then position
Ahead(p, q) ==
    LET sp == StartInstantOf(EventAt(p).id)
        sq == StartInstantOf(EventAt(q).id)
        first == p[1] < q[1] \/ (p[1] = q[1] /\ p[2] < q[2])
    IN IF args.singleEvents /\ args.orderBy \in {Undef, "startTime"}
       THEN sp < sq \/ (sp = sq /\ first)
       ELSE first

Rank(p) == Cardinality({q \in Kept : Ahead(q, p)})

(* C9: the returned list is a function of the request and of what each     *)
(* source handed back alone: the kept events ranked by start (when that    *)
(* order applies), then source, then position, cut at maxResults,          *)
(* whatever the order in which the listing calls completed.                *)
C9_CompletionOrderIrrelevant ==
    Succeeded =>
        LET items == response.structuredContent.items IN
        /\ Len(items) = Min(Cardinality(Kept), args.maxResults)
        /\ \A p \in Kept :
              Rank(p) < args.maxResults =>
                  /\ items[Rank(p) + 1].id = EventAt(p).id
                  /\ items[Rank(p) + 1].calendarId = calendarsToSearch[p[1]].id
                  /\ items[Rank(p) + 1].calendarName = calendarsToSearch[p[1]].summary

\* a later source completed first, and two returned events of different
\* sources start at the same instant
C9_Witness ==
    /\ Succeeded
    /\ overtaken
    /\ args.singleEvents
    /\ args.orderBy = Undef
    /\ \E k \in 1..(Len(locals.allEvents) - 1) :
          /\ locals.allEvents[k].calendarId # locals.allEvents[k + 1].calendarId
          /\ StartInstantOf(locals.allEvents[k].id)
                = StartInstantOf(locals.allEvents[k + 1].id)

(* C10: merge, filter, sort, cap and the building of the response never    *)
(* happen while a listing call is outstanding: once the handler has        *)
(* aggregated, every call has returned or had its failure caught.          *)
C10_JoinBarrier ==
    (locals # NoLocals \/ (Done /\ calls # << >>)) =>
        \A i \in 1..Len(calls) : upstream[i] # Pending /\ settled[i] # Pending

\* three calls went out, completed out of order, one failing, then aggregation
C10_Witness ==
    /\ locals # NoLocals
    /\ Len(calls) = 3
    /\ overtaken
    /\ \E i \in Sources : Raised(i)
    /\ \E i \in Sources : Returned(i)


\* the positions of the listed calendars the caller can read
ReadablePositions ==
    {p \in 1..Len(calendarList.items) :
        calendarList.items[p].accessRole \in {"owner", "writer", "reader"}}

(* C11: under selector 'all' the resolved sources are exactly the listed   *)
(* calendars whose access role is owner, writer or reader, in the order    *)
(* listed, and no calendar of another role is sent a listEvents request.   *)
C11_AllKeepsReadableInOrder ==
    (args.calendarId = AllCalendars /\ calendarList.kind = "returned") =>
        /\ Len(calendarsToSearch) = Cardinality(ReadablePositions)
        /\ \A p \in ReadablePositions :
              calendarsToSearch[Cardinality({q \in ReadablePositions : q <= p})]
                  = calendarList.items[p]
        /\ \A i \in 1..Len(calls) : \A k \in 1..Len(calls[i]) :
              \E p \in ReadablePositions :
                  calls[i][k].calendarId = calendarList.items[p].id

\* a free/busy-only calendar was listed ahead of a readable one, whose
\* events were then requested
C11_Witness ==
    /\ args.calendarId = AllCalendars
    /\ calendarList.kind = "returned"
    /\ Len(calendarList.items) = 2
    /\ calendarList.items[1].accessRole = "freeBusyReader"
    /\ Len(calls) = 1
    /\ calls[1][1].calendarId = calendarList.items[2].id

(* C12: without a provider token the handler returns an error result and   *)
(* calls neither listCalendars nor listEvents; and every error result      *)
(* carries the error flag and one message and no structured payload.       *)
C12_ErrorResults ==
    /\ ~Truthy(providerToken) =>
          /\ listCalendarsCalls = 0
          /\ calls = << >>
          /\ Done => /\ response.isError
                     /\ response.text[1].kind = "authenticationRequired"
    /\ (Done /\ (response.isError \/ locals = NoLocals)) =>
          /\ response.isError
          /\ Len(response.text) = 1
          /\ response.text[1].kind \in
                {"authenticationRequired", "paginationSingleCalendar", "failedToSearch"}
          /\ "structuredContent" \notin DOMAIN response

\* the handler has answered a request that came without a provider token
C12_Witness ==
    /\ Done
    /\ ~Truthy(providerToken)
    /\ response.isError
    /\ args.calendarId = AllCalendars

(* C13: a single-source request whose final event list is empty carries    *)
(* no continuation token, in the text or in the structured nextPageToken,  *)
(* even when the listing returned one.                                     *)
C13_NoTokenWithoutResults ==
    (/\ Succeeded
     /\ Len(calendarsToSearch) = 1
     /\ Len(locals.allEvents) = 0
     /\ Returned(1)
     /\ Truthy(upstream[1].nextPageToken)) =>
        /\ TextLines("pageToken") = {}
        /\ response.structuredContent.nextPageToken = Undef


(* C14: hasMore is true exactly when the merged, filtered and (when it     *)
(* applies) sorted sequence is longer than maxResults, and the returned    *)
(* events are the first maxResults entries of that sequence, in order.     *)
C14_HasMoreAndPrefix ==
    Succeeded =>
        /\ locals.hasMore <=> (Len(locals.ordered) > args.maxResults)
        /\ locals.hasMore <=> (Cardinality(Kept) > args.maxResults)
        /\ Len(locals.ordered) = Cardinality(Kept)
        /\ Len(locals.allEvents) = Min(Len(locals.ordered), args.maxResults)
        /\ \A k \in 1..Len(locals.allEvents) :
              /\ locals.allEvents[k] = locals.ordered[k]
              /\ response.structuredContent.items[k].id = locals.ordered[k].id
        /\ \A k \in TextLines("found") : response.text[k].more = locals.hasMore

\* exactly maxResults events were kept, after the sort moved them: all are
\* returned and nothing more is announced
C14_Witness ==
    /\ Succeeded
    /\ args.maxResults = 2
    /\ Len(locals.ordered) = 2
    /\ locals.ordered # locals.filtered
    /\ ~locals.hasMore
    /\ Len(locals.allEvents) = 2

\* one more event than maxResults was kept: the last is cut and more announced
C14_WitnessCut ==
    /\ Succeeded
    /\ Len(locals.ordered) = args.maxResults + 1
    /\ locals.hasMore


\* the fetch cap the claim states, by the range maxResults falls in
PlannedCap(maxResults, withQuery) ==
    IF withQuery
    THEN (IF maxResults <= 10 THEN 100
          ELSE IF maxResults >= 25 THEN 250 ELSE maxResults * 10)
    ELSE (IF maxResults <= 5 THEN 10
          ELSE IF maxResults >= 125 THEN 250 ELSE maxResults * 2)

(* C15: for every maxResults in 1..250 each listEvents request carries     *)
(* min(max(maxResults * 10, 100), 250) under a non-empty query and         *)
(* min(max(maxResults * 2, 10), 250) otherwise: never above 250, never     *)
(* below maxResults, and at least 100 under a query.                       *)
C15_FetchCap ==
    \A i \in 1..Len(calls) : \A k \in 1..Len(calls[i]) :
        LET cap == calls[i][k].maxResults
            withQuery == args.query # NoText /\ Len(args.query) > 0
        IN /\ cap = PlannedCap(args.maxResults, withQuery)
           /\ cap <= 250
           /\ cap >= args.maxResults
           /\ withQuery => cap >= 100

\* maxResults 1 under a query: each of three sources is asked for 100 events
C15_Witness ==
    /\ Len(calls) = 3
    /\ args.maxResults = 1
    /\ args.query = BarberQuery
    /\ \A i \in 1..3 : calls[i][1].maxResults = 100

(* C16: within one request exactly one listEvents call is issued per       *)
(* resolved calendar and none is reissued: at every moment each calendar   *)
(* that has been asked has been asked once, for its own id, also after its *)
(* call raised and after the request has finished.                         *)
C16_OneCallPerSource ==
    /\ (pc = "fetching" \/ Succeeded) => Len(calls) = Len(calendarsToSearch)
    /\ \A i \in 1..Len(calls) :
          /\ Len(calls[i]) = 1
          /\ calls[i][1].calendarId = calendarsToSearch[i].id
    /\ \A i \in Sources : Raised(i) => Len(calls[i]) = 1

\* a finished request over three calendars, two of whose calls raised
C16_Witness ==
    /\ Succeeded
    /\ Len(calls) = 3
    /\ Cardinality({i \in Sources : Raised(i)}) = 2

(* C17: a listEvents request carries a non-empty pageToken only when the   *)
(* resolved calendar set has exactly one calendar; with several calendars  *)
(* or none no listEvents request carries one.                              *)
C17_TokenOnlyToSingleSource ==
    \A i \in 1..Len(calls) : \A k \in 1..Len(calls[i]) :
        Truthy(calls[i][k].pageToken) => Len(calendarsToSearch) = 1

\* selector 'all' resolved to one readable calendar, asked with the token
C17_Witness ==
    /\ args.calendarId = AllCalendars
    /\ Len(calendarsToSearch) = 1
    /\ Len(calls) = 1
    /\ calls[1][1].pageToken = "tok"

\* the handed-back events of the first i sources as <<source, position>>,
\* source by source in resolution order, each source's in the order it gave
RECURSIVE HandedUpTo(_)
HandedUpTo(i) ==
    IF i = 0 THEN << >>
    ELSE HandedUpTo(i - 1) \o [j \in 1..Len(Contribution(i)) |-> <<i, j>>]

\* the same, less the events the query filters out
KeptInGivenOrder == SelectSeq(HandedUpTo(Len(upstream)), LAMBDA p : p \in Kept)

(* C18: when the start-time sort does not apply (singleEvents false, or    *)
(* orderBy 'updated') the returned events are not reordered: they are the  *)
(* per-source lists laid end to end in resolution order, each in the order *)
(* its source gave, less the filtered-out events and the tail beyond       *)
(* maxResults.                                                             *)
C18_NoReorderWithoutSort ==
    (Succeeded /\ (~args.singleEvents \/ args.orderBy = "updated")) =>
        LET items == response.structuredContent.items IN
        /\ locals.ordered = locals.filtered
        /\ Len(locals.allEvents) = Min(Len(KeptInGivenOrder), args.maxResults)
        /\ Len(items) = Len(locals.allEvents)
        /\ \A k \in 1..Len(locals.allEvents) :
              LET p == KeptInGivenOrder[k]
                  e == locals.allEvents[k]
              IN /\ e.id = EventAt(p).id
                 /\ e.calendarId = calendarsToSearch[p[1]].id
                 /\ items[k].id = e.id
                 /\ items[k].calendarId = e.calendarId

\* orderBy 'updated' over two sources: a later event is returned ahead of
\* an earlier one, as the sources gave them
C18_Witness ==
    /\ Succeeded
    /\ args.singleEvents
    /\ args.orderBy = "updated"
    /\ Len(calendarsToSearch) > 1
    /\ Len(locals.allEvents) = 2
    /\ locals.allEvents[1].calendarId # locals.allEvents[2].calendarId
    /\ StartInstantOf(locals.allEvents[1].id) > StartInstantOf(locals.allEvents[2].id)

\* the display names of the resolved calendars whose listing call ended
\* the given way, in resolution order
NamesOf(kind) ==
    LET which == SelectSeq([i \in Sources |-> i], LAMBDA i : upstream[i].kind = kind)
    IN [n \in 1..Len(which) |-> calendarsToSearch[which[n]].summary]

(* C19: in every non-error result the searched list and the failed list    *)
(* partition the resolved calendars: a calendar is in the failed list      *)
(* exactly when its listing call raised, whatever the message (the empty   *)
(* one included), and in the searched list (calendarsSearched) exactly     *)
(* when its call returned.                                                 *)
C19_SearchedFailedPartition ==
    Succeeded =>
        /\ locals.searchedCalendars = NamesOf("returned")
        /\ locals.failedCalendars = NamesOf("raised")
        /\ response.structuredContent.calendarsSearched = NamesOf("returned")
        /\ Len(locals.searchedCalendars) + Len(locals.failedCalendars)
              = Len(calendarsToSearch)

\* event e, as returned, is the event source i's listing call handed back
\* at position j, tagged with that source's id and display name
ReturnedFrom(e, i, j) ==
    /\ e.id = Contribution(i)[j].id
    /\ e.calendarId = calendarsToSearch[i].id
    /\ e.calendarName = calendarsToSearch[i].summary

(* C20: every returned event carries the calendarId and calendarName of    *)
(* the resolved calendar whose listing call handed it back, whatever the   *)
(* order in which the concurrent calls completed: none is attributed to    *)
(* another calendar, and none is returned that no listing call gave.       *)
C20_EventAttribution ==
    Succeeded =>
        LET items == response.structuredContent.items IN
        /\ \A k \in 1..Len(locals.allEvents) :
              LET e == locals.allEvents[k] IN
              /\ \E p \in Handed :
                    /\ ReturnedFrom(e, p[1], p[2])
                    /\ \A f \in DOMAIN EventAt(p) : e[f] = EventAt(p)[f]
              /\ \A i \in Sources :
                    e.calendarId = calendarsToSearch[i].id =>
                        \E j \in 1..Len(Contribution(i)) : Contribution(i)[j].id = e.id
        /\ \A k \in 1..Len(items) :
              \E p \in Handed : ReturnedFrom(items[k], p[1], p[2])

\* a later calendar's call completed first; events of two calendars are
\* returned, the second calendar's ahead of the first's
C20_Witness ==
    /\ Succeeded
    /\ overtaken
    /\ Len(upstream) = 3
    /\ Len(locals.allEvents) = 2
    /\ locals.allEvents[1].calendarId = calendarsToSearch[2].id
    /\ locals.allEvents[2].calendarId = calendarsToSearch[1].id

====
